---- MODULE Spec2Model ----
(***************************************************************************)
(* Progress recording and course aggregation of the e-learning dashboard:  *)
(* the server action saveActivityProgress and its helper                   *)
(* updateCourseProgress (app/actions/activity-actions), run by concurrent  *)
(* requests against the shared row store.  One action per store round trip.*)
(***************************************************************************)
EXTENDS Integers, Sequences, FiniteSets, TLC

\* ------------------------------------------------------------------ bounds
NProcs == 3
MaxCalls == 2
MaxFaults == 1
\* flip-cards: the pairs of an activity, and the longest matchedPairs followed
NPairs == 2
MaxMatched == 3

\* ----------------------------------------------------------- value domains
Procs == 1..NProcs
Users == {"u1", "u2"}
NoUser == "nobody"
Courses == {"c1", "c2"}
ActivityIds == {"a1", "a2", "a3"}
MissingId == "a0"
CourseOf == [a \in ActivityIds |-> IF a = "a3" THEN "c2" ELSE "c1"]
\* a1 is published, a2 is published or still a draft, a3 is a draft
StatusConfigs ==
    {st \in [ActivityIds -> {"draft", "published"}] :
        st["a1"] = "published" /\ st["a3"] = "draft"}
Undefined == -1
NoRow == 0
\* what the callers submit: multiple-choice omits timeSpent, flip-cards measures
\* it, fill-in-the-blanks passes 0 (here with an attempt left unfinished)
Submissions ==
    {[answers |-> "x", score |-> 1, completed |-> TRUE, timeSpent |-> Undefined],
     [answers |-> "y", score |-> 2, completed |-> TRUE, timeSpent |-> 5],
     [answers |-> "y", score |-> 2, completed |-> FALSE, timeSpent |-> 0]}

\* ------------------------------------------------------------------- state
VARIABLES
    status,            \* activities.status, set by the administrator
    user_progress,     \* table user_progress: row id = index
    user_courses,      \* table user_courses: row id = index
    total_enrollment,  \* courses.total_enrollment per course
    stale,             \* the paths revalidatePath has marked stale
    pc,                \* where each request stands
    frame,             \* the arguments and locals of each running request
    result,            \* what the last call of each client returned
    calls,             \* calls started so far; also the clock of new Date()
    faults,            \* store and auth faults so far
    ui                 \* the React state of each mounted activity component

vars == <<status, user_progress, user_courses, total_enrollment, stale,
          pc, frame, result, calls, faults, ui>>

tables == <<user_progress, user_courses, total_enrollment>>

\* ---------------------------------------------------------------- locals
NoFrame ==
    [session |-> NoUser, activityId |-> MissingId, score |-> 0,
     completed |-> FALSE, answers |-> "", timeSpent |-> Undefined,
     user |-> NoUser, course_id |-> "",
     course |-> Undefined,
     existingProgress |-> NoRow, existingTime |-> Undefined,
     progressPercentage |-> 0, averageScore |-> 0,
     existingUserCourse |-> NoRow, data |-> NoRow]

\* the activity components whose save handlers are modelled
Components == {"flipCards", "dragDrop", "multipleChoice"}
\* flip-cards and drag-and-drop share the text of handleSave
SaveComponents == {"flipCards", "dragDrop"}

\* useState(...) of a component mounted without completed progress; isSubmitting
\* stands for isSaving and isChecking too; calculatedScore (newScore) and request
\* (the pending call) are locals of the running handler; pairs (the content the
\* cards were built from), flippedCards, matchedPairs and timers (the flip-back
\* timeouts pending) are the board of flip-cards
MountedUi ==
    [isSubmitting |-> FALSE, isCompleted |-> FALSE, showResult |-> FALSE,
     score |-> 0, toast |-> "none", calculatedScore |-> 0, request |-> 0,
     pairs |-> {}, flippedCards |-> <<>>, matchedPairs |-> <<>>, timers |-> 0]

NoResult == [kind |-> "none", error |-> "", data |-> NoRow]
Success(d) == [kind |-> "success", error |-> "", data |-> d]
Failure(msg) == [kind |-> "failure", error |-> msg, data |-> NoRow]

\* ------------------------------------------------------- pure expressions
\* JavaScript truthiness of an optional number
Truthy(x) == x # Undefined /\ x # 0

\* a variant that forgets the stored value: timeSpent || 0
TimeSpentNoFallback(timeSpent, existingProgress, existingTime) ==
    IF Truthy(timeSpent) THEN timeSpent ELSE 0

\* timeSpent || existingProgress?.time_spent || 0
TimeSpentValue(timeSpent, existingProgress, existingTime) ==
    IF Truthy(timeSpent) THEN timeSpent
    ELSE IF existingProgress # NoRow /\ Truthy(existingTime) THEN existingTime
    ELSE 0

\* a variant that truncates: Math.floor
MathFloor(n, d) == n \div d

\* Math.round of the quotient n/d for n >= 0, d > 0 (halves round up)
MathRound(n, d) == (2 * n + d) \div (2 * d)

\* Math.round((completedCount / totalActivities) * 100)
ProgressPercentage(completedCount, totalActivities) ==
    MathRound(completedCount * 100, totalActivities)

\* completedCount > 0 ? Math.round(totalScore / completedCount) : 0
AverageScore(totalScore, completedCount) ==
    IF completedCount > 0 THEN MathRound(totalScore, completedCount) ELSE 0

\* .single(): the row when exactly one row matches, else null (with an error)
Single(ids) == IF Cardinality(ids) = 1 THEN CHOOSE i \in ids : TRUE ELSE NoRow

\* from("user_courses").eq("user_id", u).eq("course_id", c)
UserCourseRows(u, c) ==
    {i \in DOMAIN user_courses :
        user_courses[i].user_id = u /\ user_courses[i].course_id = c}

\* from("user_progress").eq("user_id", u).eq("activity_id", a)
ProgressRows(u, a) ==
    {i \in DOMAIN user_progress :
        user_progress[i].user_id = u /\ user_progress[i].activity_id = a}

\* from("user_progress").eq("user_id", u).eq("course_id", c).eq("completed", true)
CompletedRows(u, c) ==
    {i \in DOMAIN user_progress :
        /\ user_progress[i].user_id = u
        /\ user_progress[i].course_id = c
        /\ user_progress[i].completed}

\* from("activities").eq("course_id", c).eq("status", "published")
PublishedActivities(c) ==
    {a \in ActivityIds : CourseOf[a] = c /\ status[a] = "published"}

RECURSIVE SumScores(_)
\* completedActivities.reduce((sum, activity) => sum + (activity.score || 0), 0)
SumScores(ids) ==
    IF ids = {} THEN 0
    ELSE LET i == CHOOSE j \in ids : TRUE
         IN user_progress[i].score + SumScores(ids \ {i})

\* a variant that leaves out the path of the course
RevalidatedPathsWithoutCourse(activityId, course_id) ==
    {<<"/dashboard/activities", activityId>>,
     <<"/dashboard", "">>, <<"/dashboard/progress", "">>}

\* the four paths of revalidatePath
RevalidatedPaths(activityId, course_id) ==
    {<<"/dashboard/activities", activityId>>, <<"/dashboard/courses", course_id>>,
     <<"/dashboard", "">>, <<"/dashboard/progress", "">>}

\* the enrollment row of the auto-enrollment insert (the timestamps of
\* user_courses rows, which nothing reads back, are left out)
NewEnrollment(u, c) == [user_id |-> u, course_id |-> c, progress |-> 0, score |-> 0]

\* progressData (updated_at, which nothing reads back, is left out)
ProgressData(f) ==
    [user_id |-> f.user, activity_id |-> f.activityId, course_id |-> f.course_id,
     score |-> f.score, completed |-> f.completed, answers |-> f.answers,
     time_spent |-> TimeSpentValue(f.timeSpent, f.existingProgress, f.existingTime)]

\* the columns each update statement of a save filters on with .eq(): the
\* progress and the enrollment update name the row id and the user id, the
\* enrollment counter update names the course id alone
UpdateFilters ==
    [user_progress |-> {"id", "user_id"},
     user_courses |-> {"id", "user_id"},
     courses |-> {"id"}]

\* a variant of the progress update that names the row id alone
UpdatedProgressUnfiltered(rows, id, u, data) ==
    IF id \in DOMAIN rows
    THEN [rows EXCEPT ![id] = [k \in DOMAIN rows[id] |->
             IF k \in DOMAIN data THEN data[k] ELSE rows[id][k]]]
    ELSE rows

\* a variant of the progress update that leaves the stored answers alone
UpdatedProgressKeepingAnswers(rows, id, u, data) ==
    IF id \in DOMAIN rows /\ rows[id].user_id = u
    THEN [rows EXCEPT ![id] = [k \in DOMAIN rows[id] |->
             IF k \in DOMAIN data \ {"answers"} THEN data[k] ELSE rows[id][k]]]
    ELSE rows

\* update(progressData).eq("id", id).eq("user_id", u): created_at is kept
UpdatedProgress(rows, id, u, data) ==
    IF id \in DOMAIN rows /\ rows[id].user_id = u
    THEN [rows EXCEPT ![id] = [k \in DOMAIN rows[id] |->
             IF k \in DOMAIN data THEN data[k] ELSE rows[id][k]]]
    ELSE rows

\* insert([{ ...progressData, created_at }])
InsertedProgress(rows, data, now) ==
    Append(rows, [k \in DOMAIN data \cup {"created_at"} |->
                     IF k = "created_at" THEN now ELSE data[k]])

\* a variant of the enrollment update that never lowers the stored progress
UpdatedUserCourseMonotone(rows, id, u, progress, score) ==
    IF id \in DOMAIN rows /\ rows[id].user_id = u
    THEN [rows EXCEPT ![id].progress = IF progress > @ THEN progress ELSE @,
                      ![id].score = score]
    ELSE rows

\* update(userCourseData).eq("id", id).eq("user_id", u)
UpdatedUserCourse(rows, id, u, progress, score) ==
    IF id \in DOMAIN rows /\ rows[id].user_id = u
    THEN [rows EXCEPT ![id].progress = progress, ![id].score = score]
    ELSE rows

\* a variant that counts from zero whatever the counter read returned
IncrementedEnrollmentFromZero(course) == 0 + 1

\* (course?.total_enrollment || 0) + 1
IncrementedEnrollment(course) == (IF Truthy(course) THEN course ELSE 0) + 1

\* a variant that writes the row anew, creation timestamp included, on both paths
WrittenProgressStamping(rows, f, now) ==
    IF f.existingProgress # NoRow
    THEN [UpdatedProgress(rows, f.existingProgress, f.user, ProgressData(f))
             EXCEPT ![f.existingProgress].created_at = now]
    ELSE InsertedProgress(rows, ProgressData(f), now)

\* if (existingProgress && existingProgress.id) update ... else insert ...
WrittenProgress(rows, f, now) ==
    IF f.existingProgress # NoRow
    THEN UpdatedProgress(rows, f.existingProgress, f.user, ProgressData(f))
    ELSE InsertedProgress(rows, ProgressData(f), now)

\* progressPercentage of the rows and activities read
CourseProgress(u, c) ==
    ProgressPercentage(Cardinality(CompletedRows(u, c)),
                       Cardinality(PublishedActivities(c)))

\* averageScore of the rows read
CourseScore(u, c) ==
    AverageScore(SumScores(CompletedRows(u, c)), Cardinality(CompletedRows(u, c)))

\* a variant that replaces the user's enrollment rows by the one computed
WrittenUserCourseReplacing(rows, f) ==
    Append(SelectSeq(rows, LAMBDA r : r.user_id # f.user),
           [user_id |-> f.user, course_id |-> f.course_id,
            progress |-> f.progressPercentage, score |-> f.averageScore])

\* if (existingUserCourse && existingUserCourse.id) update ... else insert ...
WrittenUserCourse(rows, f) ==
    IF f.existingUserCourse # NoRow
    THEN UpdatedUserCourse(rows, f.existingUserCourse, f.user,
                           f.progressPercentage, f.averageScore)
    ELSE Append(rows, [user_id |-> f.user, course_id |-> f.course_id,
                       progress |-> f.progressPercentage, score |-> f.averageScore])

\* the locals after the progress write: result.data is the row written; the
\* arguments and the row looked up are read by no later statement
AfterWrite(f, newId) ==
    [NoFrame EXCEPT !.session = f.session, !.user = f.user,
                    !.activityId = f.activityId, !.course_id = f.course_id,
                    !.data = IF f.existingProgress # NoRow THEN f.existingProgress
                             ELSE newId]

\* ------------------------------------------------------------ bookkeeping
\* a call to the auth provider or the row store answers with an error or without
Answers(err) ==
    /\ err => faults < MaxFaults
    /\ faults' = IF err THEN faults + 1 ELSE faults
Goto(p, label) == pc' = [pc EXCEPT ![p] = label]
Return(p, r) ==
    /\ pc' = [pc EXCEPT ![p] = "idle"]
    /\ result' = [result EXCEPT ![p] = r]
    /\ frame' = [frame EXCEPT ![p] = NoFrame]

\* ------------------------------------------------------------------ Init
Init ==
    /\ status \in StatusConfigs
    /\ user_progress = <<>>
    /\ user_courses = <<>>
    /\ total_enrollment = [c \in Courses |-> 0]
    /\ stale = {}
    /\ pc = [p \in Procs |-> "idle"]
    /\ frame = [p \in Procs |-> NoFrame]
    /\ result = [p \in Procs |-> NoResult]
    /\ calls = 0
    /\ faults = 0
    /\ ui = [c \in Components |-> MountedUi]

\* ------------------------------------------------- saveActivityProgress
\* saveActivityProgress(activityId, score, completed, answers, timeSpent) is
\* called; a new request takes the first free request slot
Invocation(p) ==
    /\ pc[p] = "idle"
    /\ calls < MaxCalls
    /\ \A q \in Procs : q < p => pc[q] # "idle"
    /\ \E s \in Users \cup {NoUser}, a \in ActivityIds \cup {MissingId},
          sub \in Submissions :
          frame' = [frame EXCEPT ![p] =
              [NoFrame EXCEPT !.session = s, !.activityId = a, !.score = sub.score,
                              !.completed = sub.completed, !.answers = sub.answers,
                              !.timeSpent = sub.timeSpent]]
    /\ calls' = calls + 1
    /\ result' = [result EXCEPT ![p] = NoResult]
    /\ Goto(p, "getUser")
    /\ UNCHANGED <<status, tables, stale, faults>>

\* a call that leaves the modelled components as they are
Call(p) == Invocation(p) /\ UNCHANGED ui

\* a variant that tests userError alone and forgets !user
GetUserUnchecked(p) ==
    /\ pc[p] = "getUser"
    /\ \E userError \in BOOLEAN :
          /\ Answers(userError)
          /\ IF userError
               THEN Return(p, Failure("auth error"))
               ELSE /\ frame' = [frame EXCEPT ![p].user = frame[p].session]
                    /\ Goto(p, "selectActivity")
                    /\ UNCHANGED result
    /\ UNCHANGED <<status, ui, tables, stale, calls>>

\* supabase.auth.getUser(); if (userError || !user) return failure
GetUser(p) ==
    /\ pc[p] = "getUser"
    /\ \E userError \in BOOLEAN :
          /\ Answers(userError)
          /\ IF userError
               THEN Return(p, Failure("auth error"))
               ELSE IF frame[p].session = NoUser
                    THEN Return(p, Failure("User not authenticated"))
                    ELSE /\ frame' = [frame EXCEPT ![p].user = frame[p].session]
                         /\ Goto(p, "selectActivity")
                         /\ UNCHANGED result
    /\ UNCHANGED <<status, ui, tables, stale, calls>>

\* a variant that goes on without the activity row
SelectActivityUnchecked(p) ==
    /\ pc[p] = "selectActivity"
    /\ \E activityError \in BOOLEAN :
          /\ Answers(activityError)
          /\ IF activityError
               THEN Return(p, Failure("store error"))
               ELSE /\ frame' = [frame EXCEPT ![p].course_id =
                           IF frame[p].activityId \in ActivityIds
                           THEN CourseOf[frame[p].activityId] ELSE "c1"]
                    /\ Goto(p, "selectUserCourse")
                    /\ UNCHANGED result
    /\ UNCHANGED <<status, ui, tables, stale, calls>>

\* from("activities").select("course_id").eq("id", activityId).single()
SelectActivity(p) ==
    /\ pc[p] = "selectActivity"
    /\ \E activityError \in BOOLEAN :
          /\ Answers(activityError)
          /\ IF activityError
               THEN Return(p, Failure("store error"))
               ELSE IF frame[p].activityId \notin ActivityIds
                    THEN Return(p, Failure("no rows returned"))
                    ELSE /\ frame' = [frame EXCEPT
                                ![p].course_id = CourseOf[frame[p].activityId]]
                         /\ Goto(p, "selectUserCourse")
                         /\ UNCHANGED result
    /\ UNCHANGED <<status, ui, tables, stale, calls>>

\* from("user_courses").select("*").eq(user_id).eq(course_id).single()
SelectUserCourse(p) ==
    /\ pc[p] = "selectUserCourse"
    /\ \E userCourseError \in BOOLEAN :
          /\ Answers(userCourseError)
          /\ LET userCourse ==
                     IF userCourseError THEN NoRow
                     ELSE Single(UserCourseRows(frame[p].user, frame[p].course_id))
             IN Goto(p, IF userCourse = NoRow THEN "insertUserCourse"
                                             ELSE "selectProgress")
    /\ UNCHANGED <<status, ui, tables, stale, frame, result, calls>>

\* a variant that gives up the save when the enrollment insert fails
InsertUserCourseAborting(p) ==
    /\ pc[p] = "insertUserCourse"
    /\ \E enrollError \in BOOLEAN :
          /\ Answers(enrollError)
          /\ IF enrollError
               THEN /\ Return(p, Failure("store error"))
                    /\ UNCHANGED user_courses
               ELSE /\ user_courses' = Append(user_courses,
                           NewEnrollment(frame[p].user, frame[p].course_id))
                    /\ Goto(p, "selectCourse")
                    /\ UNCHANGED <<frame, result>>
    /\ UNCHANGED <<status, ui, user_progress, total_enrollment, stale, calls>>

\* a variant that goes on to the counter whether or not the insert succeeded
InsertUserCourseCounting(p) ==
    /\ pc[p] = "insertUserCourse"
    /\ \E enrollError \in BOOLEAN :
          /\ Answers(enrollError)
          /\ IF enrollError
               THEN UNCHANGED user_courses
               ELSE user_courses' = Append(user_courses,
                        NewEnrollment(frame[p].user, frame[p].course_id))
    /\ Goto(p, "selectCourse")
    /\ UNCHANGED <<status, ui, user_progress, total_enrollment, stale, frame, result, calls>>

\* if (!userCourse) from("user_courses").insert([{ progress: 0, score: 0 }])
InsertUserCourse(p) ==
    /\ pc[p] = "insertUserCourse"
    /\ \E enrollError \in BOOLEAN :
          /\ Answers(enrollError)
          /\ IF enrollError
               THEN /\ Goto(p, "selectProgress")
                    /\ UNCHANGED user_courses
               ELSE /\ user_courses' = Append(user_courses,
                           NewEnrollment(frame[p].user, frame[p].course_id))
                    /\ Goto(p, "selectCourse")
    /\ UNCHANGED <<status, ui, user_progress, total_enrollment, stale, frame, result, calls>>

\* from("courses").select("total_enrollment").eq("id", course_id).single()
SelectCourse(p) ==
    /\ pc[p] = "selectCourse"
    /\ \E courseError \in BOOLEAN :
          /\ Answers(courseError)
          /\ frame' = [frame EXCEPT ![p].course =
                 IF courseError THEN Undefined
                 ELSE total_enrollment[frame[p].course_id]]
    /\ Goto(p, "updateCourse")
    /\ UNCHANGED <<status, ui, tables, stale, result, calls>>

\* a variant whose write increments the counter inside the store
UpdateCourseAtomic(p) ==
    /\ pc[p] = "updateCourse"
    /\ \E updateError \in BOOLEAN :
          /\ Answers(updateError)
          /\ IF updateError
               THEN UNCHANGED total_enrollment
               ELSE total_enrollment' =
                        [total_enrollment EXCEPT ![frame[p].course_id] = @ + 1]
    /\ frame' = [frame EXCEPT ![p].course = Undefined]
    /\ Goto(p, "selectProgress")
    /\ UNCHANGED <<status, ui, user_progress, user_courses, stale, result, calls>>

\* from("courses").update({ total_enrollment: (course?.total_enrollment || 0) + 1 })
UpdateCourse(p) ==
    /\ pc[p] = "updateCourse"
    /\ \E updateError \in BOOLEAN :
          /\ Answers(updateError)
          /\ IF updateError
               THEN UNCHANGED total_enrollment
               ELSE total_enrollment' =
                        [total_enrollment EXCEPT ![frame[p].course_id] =
                            IncrementedEnrollment(frame[p].course)]
    /\ frame' = [frame EXCEPT ![p].course = Undefined]
    /\ Goto(p, "selectProgress")
    /\ UNCHANGED <<status, ui, user_progress, user_courses, stale, result, calls>>

\* from("user_progress").select("*").eq(user_id).eq(activity_id).single()
SelectProgress(p) ==
    /\ pc[p] = "selectProgress"
    /\ \E progressError \in BOOLEAN :
          /\ Answers(progressError)
          /\ LET existing ==
                     IF progressError THEN NoRow
                     ELSE Single(ProgressRows(frame[p].user, frame[p].activityId))
             IN frame' = [frame EXCEPT
                    ![p].existingProgress = existing,
                    ![p].existingTime = IF existing = NoRow THEN Undefined
                                        ELSE user_progress[existing].time_spent]
    /\ Goto(p, "writeProgress")
    /\ UNCHANGED <<status, ui, tables, stale, result, calls>>

\* a variant that signals the invalidation right after the write, without
\* calling updateCourseProgress
WriteProgressSkippingAggregate(p) ==
    /\ pc[p] = "writeProgress"
    /\ \E writeError \in BOOLEAN :
          /\ Answers(writeError)
          /\ IF writeError
               THEN /\ Return(p, Failure("store error"))
                    /\ UNCHANGED user_progress
               ELSE /\ user_progress' = WrittenProgress(user_progress, frame[p], calls)
                    /\ frame' = [frame EXCEPT ![p] = AfterWrite(@, Len(user_progress) + 1)]
                    /\ Goto(p, "revalidate")
                    /\ UNCHANGED result
    /\ UNCHANGED <<status, ui, user_courses, total_enrollment, stale, calls>>

\* a variant that does not read result.error and goes on to the aggregation
WriteProgressContinuing(p) ==
    /\ pc[p] = "writeProgress"
    /\ \E writeError \in BOOLEAN :
          /\ Answers(writeError)
          /\ IF writeError
               THEN /\ frame' = [frame EXCEPT ![p] = AfterWrite(@, NoRow)]
                    /\ UNCHANGED user_progress
               ELSE /\ user_progress' = WrittenProgress(user_progress, frame[p], calls)
                    /\ frame' = [frame EXCEPT ![p] = AfterWrite(@, Len(user_progress) + 1)]
    /\ Goto(p, "ucpActivities")
    /\ UNCHANGED <<status, ui, user_courses, total_enrollment, stale, result, calls>>

\* a variant that undoes the auto-enrollment when the progress write fails
WriteProgressRollingBack(p) ==
    /\ pc[p] = "writeProgress"
    /\ \E writeError \in BOOLEAN :
          /\ Answers(writeError)
          /\ IF writeError
               THEN /\ Return(p, Failure("store error"))
                    /\ LET Kept(r) == ~(/\ r.user_id = frame[p].user
                                        /\ r.course_id = frame[p].course_id
                                        /\ r.progress = 0
                                        /\ r.score = 0)
                       IN user_courses' = SelectSeq(user_courses, Kept)
                    /\ total_enrollment' =
                          [total_enrollment EXCEPT ![frame[p].course_id] =
                              IF @ > 0 THEN @ - 1 ELSE @]
                    /\ UNCHANGED user_progress
               ELSE /\ user_progress' = WrittenProgress(user_progress, frame[p], calls)
                    /\ frame' = [frame EXCEPT ![p] = AfterWrite(@, Len(user_progress) + 1)]
                    /\ Goto(p, "ucpActivities")
                    /\ UNCHANGED <<result, user_courses, total_enrollment>>
    /\ UNCHANGED <<status, ui, stale, calls>>

\* update the existing row, or insert a new one; return failure on result.error
WriteProgress(p) ==
    /\ pc[p] = "writeProgress"
    /\ \E writeError \in BOOLEAN :
          /\ Answers(writeError)
          /\ IF writeError
               THEN /\ Return(p, Failure("store error"))
                    /\ UNCHANGED user_progress
               ELSE /\ user_progress' = WrittenProgress(user_progress, frame[p], calls)
                    /\ frame' = [frame EXCEPT ![p] = AfterWrite(@, Len(user_progress) + 1)]
                    /\ Goto(p, "ucpActivities")
                    /\ UNCHANGED result
    /\ UNCHANGED <<status, ui, user_courses, total_enrollment, stale, calls>>

\* ------------------------------------------------- updateCourseProgress
\* a variant that goes on to the arithmetic whatever the read found
UcpActivitiesUnchecked(p) ==
    /\ pc[p] = "ucpActivities"
    /\ \E activitiesError \in BOOLEAN :
          /\ Answers(activitiesError)
          /\ IF activitiesError
               THEN Goto(p, "revalidate")
               ELSE Goto(p, "ucpCompleted")
    /\ UNCHANGED <<status, ui, tables, stale, frame, result, calls>>

\* the published activities of the course; return when the read fails or finds none
UcpActivities(p) ==
    /\ pc[p] = "ucpActivities"
    /\ \E activitiesError \in BOOLEAN :
          /\ Answers(activitiesError)
          /\ IF activitiesError \/ PublishedActivities(frame[p].course_id) = {}
               THEN Goto(p, "revalidate")
               ELSE Goto(p, "ucpCompleted")
    /\ UNCHANGED <<status, ui, tables, stale, frame, result, calls>>

\* a variant that reports a failed read of the completed rows to the caller
UcpCompletedRaising(p) ==
    /\ pc[p] = "ucpCompleted"
    /\ \E completedError \in BOOLEAN :
          /\ Answers(completedError)
          /\ IF completedError
               THEN Return(p, Failure("store error"))
               ELSE /\ frame' = [frame EXCEPT
                           ![p].progressPercentage =
                               CourseProgress(frame[p].user, frame[p].course_id),
                           ![p].averageScore =
                               CourseScore(frame[p].user, frame[p].course_id)]
                    /\ Goto(p, "ucpUserCourse")
                    /\ UNCHANGED result
    /\ UNCHANGED <<status, ui, tables, stale, calls>>

\* the user's completed rows of the course, then the percentage and the average
UcpCompleted(p) ==
    /\ pc[p] = "ucpCompleted"
    /\ \E completedError \in BOOLEAN :
          /\ Answers(completedError)
          /\ IF completedError
               THEN /\ Goto(p, "revalidate")
                    /\ UNCHANGED frame
               ELSE /\ frame' = [frame EXCEPT
                           ![p].progressPercentage =
                               CourseProgress(frame[p].user, frame[p].course_id),
                           ![p].averageScore =
                               CourseScore(frame[p].user, frame[p].course_id)]
                    /\ Goto(p, "ucpUserCourse")
    /\ UNCHANGED <<status, ui, tables, stale, result, calls>>

\* from("user_courses").select("*").eq(user_id).eq(course_id).single()
UcpUserCourse(p) ==
    /\ pc[p] = "ucpUserCourse"
    /\ \E userCourseError \in BOOLEAN :
          /\ Answers(userCourseError)
          /\ frame' = [frame EXCEPT ![p].existingUserCourse =
                 IF userCourseError THEN NoRow
                 ELSE Single(UserCourseRows(frame[p].user, frame[p].course_id))]
    /\ Goto(p, "ucpWrite")
    /\ UNCHANGED <<status, ui, tables, stale, result, calls>>

\* a variant that recomputes the aggregate again after every write
UcpWriteRepeating(p) ==
    /\ pc[p] = "ucpWrite"
    /\ \E writeError \in BOOLEAN :
          /\ Answers(writeError)
          /\ IF writeError
               THEN UNCHANGED user_courses
               ELSE user_courses' = WrittenUserCourse(user_courses, frame[p])
    /\ frame' = [frame EXCEPT ![p].progressPercentage = 0,
                              ![p].averageScore = 0,
                              ![p].existingUserCourse = NoRow]
    /\ Goto(p, "ucpActivities")
    /\ UNCHANGED <<status, ui, user_progress, total_enrollment, stale, result, calls>>

\* update the enrollment row, or insert one with the computed values
UcpWrite(p) ==
    /\ pc[p] = "ucpWrite"
    /\ \E writeError \in BOOLEAN :
          /\ Answers(writeError)
          /\ IF writeError
               THEN UNCHANGED user_courses
               ELSE user_courses' = WrittenUserCourse(user_courses, frame[p])
    /\ Goto(p, "revalidate")
    /\ UNCHANGED <<status, ui, user_progress, total_enrollment, stale, frame, result, calls>>

\* the four revalidatePath calls, then return { success: true, data }
Revalidate(p) ==
    /\ pc[p] = "revalidate"
    /\ stale' = stale \cup RevalidatedPaths(frame[p].activityId, frame[p].course_id)
    /\ Return(p, Success(frame[p].data))
    /\ UNCHANGED <<status, ui, tables, calls, faults>>

Next ==
    \E p \in Procs :
        \/ Call(p)
        \/ GetUser(p)
        \/ SelectActivity(p)
        \/ SelectUserCourse(p)
        \/ InsertUserCourse(p)
        \/ SelectCourse(p)
        \/ UpdateCourse(p)
        \/ SelectProgress(p)
        \/ WriteProgress(p)
        \/ UcpActivities(p)
        \/ UcpCompleted(p)
        \/ UcpUserCourse(p)
        \/ UcpWrite(p)
        \/ Revalidate(p)

Spec == Init /\ [][Next]_vars

\* saves that run one at a time: a call begins only when no other is running
SeqCall(p) == Call(p) /\ \A q \in Procs : pc[q] = "idle"

SeqNext ==
    \E p \in Procs :
        \/ SeqCall(p)
        \/ GetUser(p)
        \/ SelectActivity(p)
        \/ SelectUserCourse(p)
        \/ InsertUserCourse(p)
        \/ SelectCourse(p)
        \/ UpdateCourse(p)
        \/ SelectProgress(p)
        \/ WriteProgress(p)
        \/ UcpActivities(p)
        \/ UcpCompleted(p)
        \/ UcpUserCourse(p)
        \/ UcpWrite(p)
        \/ Revalidate(p)

SeqSpec == Init /\ [][SeqNext]_vars

\* the table the next statement of request p updates, "none" when the statement
\* is a read, an insert or a return
UpdateIssued(p) ==
    IF pc[p] = "updateCourse" THEN "courses"
    ELSE IF pc[p] = "writeProgress" /\ frame[p].existingProgress # NoRow
         THEN "user_progress"
    ELSE IF pc[p] = "ucpWrite" /\ frame[p].existingUserCourse # NoRow
         THEN "user_courses"
    ELSE "none"

\* the statements of a running save: each awaited call of the auth provider or
\* the row store answers, and the request goes on
Run(p) ==
    \/ GetUser(p)
    \/ SelectActivity(p)
    \/ SelectUserCourse(p)
    \/ InsertUserCourse(p)
    \/ SelectCourse(p)
    \/ UpdateCourse(p)
    \/ SelectProgress(p)
    \/ WriteProgress(p)
    \/ UcpActivities(p)
    \/ UcpCompleted(p)
    \/ UcpUserCourse(p)
    \/ UcpWrite(p)
    \/ Revalidate(p)

\* saves that run one at a time, each awaited call answering in the end
FairSeqSpec == Init /\ [][SeqNext]_vars /\ \A p \in Procs : WF_vars(Run(p))

\* ------------------------------------------------ the activity components
\* no save is running and no handler awaits one: the handlers run one at a time
Quiet ==
    /\ \A q \in Procs : pc[q] = "idle"
    /\ \A d \in Components : ui[d].request = 0

\* handleSave of flip-cards and drag-and-drop up to its await: if (isCompleted)
\* return; setIsSubmitting(true); the score and the time spent are computed and
\* saveActivityProgress(activity.id, calculatedScore, true, answers, timeSpent)
\* is called (the button is disabled while isSubmitting)
HandleSave(c) ==
    /\ Quiet
    /\ ~ui[c].isCompleted
    /\ ~ui[c].isSubmitting
    /\ \E p \in Procs :
          /\ Invocation(p)
          /\ frame'[p].completed
          /\ frame'[p].timeSpent # Undefined
          /\ ui' = [ui EXCEPT ![c].isSubmitting = TRUE,
                              ![c].calculatedScore = frame'[p].score,
                              ![c].request = p]

\* handleSave after its await: the value returned is not read; setScore,
\* setIsCompleted(true), toast "Progress saved", finally setIsSubmitting(false)
HandleSaveResumed(c) ==
    /\ ui[c].request # 0
    /\ pc[ui[c].request] = "idle"
    /\ ui' = [ui EXCEPT ![c].score = ui[c].calculatedScore,
                        ![c].isCompleted = TRUE,
                        ![c].toast = "Progress saved",
                        ![c].isSubmitting = FALSE,
                        ![c].calculatedScore = 0,
                        ![c].request = 0]
    /\ UNCHANGED <<status, tables, stale, pc, frame, result, calls, faults>>

\* handleSubmit of multiple-choice up to its await: setIsSaving(true),
\* setScore(newScore), setShowResult(true), setIsChecking(true), then
\* saveActivityProgress(activity.id, newScore, true, selectedAnswers); the
\* questions and the submit button are rendered only while showResult is false
HandleSubmit ==
    /\ Quiet
    /\ ~ui["multipleChoice"].showResult
    /\ ~ui["multipleChoice"].isSubmitting
    /\ \E p \in Procs :
          /\ Invocation(p)
          /\ frame'[p].completed
          /\ frame'[p].timeSpent = Undefined
          /\ ui' = [ui EXCEPT !["multipleChoice"].isSubmitting = TRUE,
                              !["multipleChoice"].score = frame'[p].score,
                              !["multipleChoice"].showResult = TRUE,
                              !["multipleChoice"].request = p]

\* handleSubmit after its await: if (!result.success) throw, caught by the
\* destructive toast "Error saving progress"; else toast "Activity completed"
\* and router.refresh(); finally setIsSaving(false), setIsChecking(false)
HandleSubmitResumed ==
    /\ ui["multipleChoice"].request # 0
    /\ pc[ui["multipleChoice"].request] = "idle"
    /\ ui' = [ui EXCEPT
           !["multipleChoice"].toast =
               IF result[ui["multipleChoice"].request].kind = "success"
               THEN "Activity completed" ELSE "Error saving progress",
           !["multipleChoice"].isSubmitting = FALSE,
           !["multipleChoice"].request = 0]
    /\ UNCHANGED <<status, tables, stale, pc, frame, result, calls, faults>>

UiNext ==
    \/ \E c \in SaveComponents : HandleSave(c)
    \/ \E c \in SaveComponents : HandleSaveResumed(c)
    \/ HandleSubmit
    \/ HandleSubmitResumed
    \/ \E p \in Procs : Run(p)

\* the learner's components saving through the server action, one save at a time
UiSpec == Init /\ [][UiNext]_vars

\* request p enters saveActivityProgress with the session of s and the
\* arguments (a, sub.score, sub.completed, sub.answers, sub.timeSpent)
Entry(p, s, a, sub) ==
    /\ pc[p] = "idle"
    /\ frame' = [frame EXCEPT ![p] =
           [NoFrame EXCEPT !.session = s, !.activityId = a,
                           !.score = sub.score, !.completed = sub.completed,
                           !.answers = sub.answers, !.timeSpent = sub.timeSpent]]
    /\ calls' = calls + 1
    /\ result' = [result EXCEPT ![p] = NoResult]
    /\ Goto(p, "getUser")
    /\ UNCHANGED <<status, tables, stale, faults>>

\* ------------------------------------- a race, then one more save alone
\* the activities one learner saves in rapid succession: those of course c1
RaceUser == "u1"
RaceActivities == {a \in ActivityIds : CourseOf[a] = "c1"}

\* concurrent saves of RaceUser in course c1
RaceCall(p) ==
    /\ Call(p)
    /\ frame'[p].session = RaceUser
    /\ frame'[p].activityId \in RaceActivities

\* when the concurrent saves have all returned, the learner saves once more;
\* this save runs alone
FurtherSave(p) ==
    /\ calls = MaxCalls
    /\ p = 1
    /\ \A q \in Procs : pc[q] = "idle"
    /\ \E a \in RaceActivities, sub \in Submissions : Entry(p, RaceUser, a, sub)
    /\ UNCHANGED ui

\* the statements of a save; the store answers the further save without error
RaceRun(p) ==
    /\ Run(p)
    /\ calls > MaxCalls => faults' = faults

RaceNext ==
    \E p \in Procs :
        \/ RaceCall(p)
        \/ FurtherSave(p)
        \/ RaceRun(p)

RaceSpec == Init /\ [][RaceNext]_vars

\* --------------------------- first-time enrollments into the same course
\* the learners who enroll, one per request
EnrollUsers == <<"u1", "u2", "u3">>

\* learner p submits the multiple-choice activity a1 of course c1 for the
\* first time; the requests of the learners overlap
EnrollCall(p) ==
    /\ p \in DOMAIN EnrollUsers
    /\ calls = p - 1
    /\ \E sub \in {s \in Submissions : s.completed /\ s.timeSpent = Undefined} :
          Entry(p, EnrollUsers[p], "a1", sub)
    /\ UNCHANGED ui

EnrollNext ==
    \E p \in Procs :
        \/ EnrollCall(p)
        \/ Run(p)

EnrollSpec == Init /\ [][EnrollNext]_vars

\* ------------------------------------------------------------- flip-cards
\* a string is kept as the sequence of the pieces that "-" separates in it:
\* "term-p1" is <<"term", "p1">>, so a template literal `a-${b}` is <<"a">> \o b
\* and s.split("-") is the sequence itself
PairNames == <<"p1", "p2", "p3", "p4">>

\* activity.content.pairs by pair id: ids as in the content template ("p1",
\* "p2"), or ids with a hyphen in them ("pair-p1", "pair-p2")
PlainPairs == {<<PairNames[i]>> : i \in 1..NPairs}
HyphenPairs == {<<"pair", PairNames[i]>> : i \in 1..NPairs}
PairContents == {PlainPairs, HyphenPairs}

\* the cards the mount effect builds: `term-${pair.id}` and `match-${pair.id}`
Cards(pairs) ==
    {[id |-> <<type>> \o pair, pairId |-> pair] : type \in {"term", "match"}, pair \in pairs}

\* cardId.split("-")[1]
SplitSecond(cardId) == <<cardId[2]>>

\* array.includes(x)
Includes(array, x) == \E i \in DOMAIN array : array[i] = x

\* cards.find((card) => card.id === cardId)
Find(cards, cardId) == CHOOSE card \in cards : card.id = cardId

\* Math.round((correctMatches / totalPairs) * 100)
CalculatedScore(correctMatches, totalPairs) == MathRound(correctMatches * 100, totalPairs)

\* the learner and the activity of the board
FlipUser == "u1"
FlipActivity == "a1"

\* the mount effect: the cards are built from the pairs of the activity's
\* content (progress is not completed); it runs before any event is handled
InitializeCards ==
    /\ ui["flipCards"].pairs = {}
    /\ \E pairs \in PairContents : ui' = [ui EXCEPT !["flipCards"].pairs = pairs]
    /\ UNCHANGED <<status, tables, stale, pc, frame, result, calls, faults>>

\* handleCardClick(cardId), run against the state of the latest render (a click
\* is handled after the updates of the event before it are flushed): three early
\* returns, then the card is flipped; a second card is compared with the first,
\* a match is appended to matchedPairs, and a flip-back timeout is set
HandleCardClick(card) ==
    LET board == ui["flipCards"] IN
    /\ card \in Cards(board.pairs)
    /\ IF \/ board.isCompleted
          \/ Includes(board.matchedPairs, SplitSecond(card.id))
          \/ Len(board.flippedCards) = 2
          \/ Includes(board.flippedCards, card.id)
       THEN UNCHANGED ui
       ELSE IF Len(board.flippedCards) = 1
            THEN LET firstCard == Find(Cards(board.pairs), board.flippedCards[1])
                     secondCard == Find(Cards(board.pairs), card.id)
                 IN IF firstCard.pairId = secondCard.pairId
                    THEN /\ Len(board.matchedPairs) < MaxMatched
                         /\ ui' = [ui EXCEPT
                               !["flipCards"].flippedCards = Append(@, card.id),
                               !["flipCards"].matchedPairs = Append(@, firstCard.pairId),
                               !["flipCards"].timers = @ + 1]
                    ELSE ui' = [ui EXCEPT
                               !["flipCards"].flippedCards = Append(@, card.id),
                               !["flipCards"].timers = @ + 1]
            ELSE ui' = [ui EXCEPT !["flipCards"].flippedCards = Append(@, card.id)]
    /\ UNCHANGED <<status, tables, stale, pc, frame, result, calls, faults>>

\* a flip-back timeout fires: setFlippedCards([])
FlipBack ==
    /\ ui["flipCards"].timers > 0
    /\ ui' = [ui EXCEPT !["flipCards"].flippedCards = <<>>,
                        !["flipCards"].timers = @ - 1]
    /\ UNCHANGED <<status, tables, stale, pc, frame, result, calls, faults>>

\* handleSave of flip-cards up to its await, with the score it computes from
\* the board: saveActivityProgress(activity.id, calculatedScore, true,
\* { matchedPairs }, timeSpent)
HandleSaveFlipCards ==
    LET board == ui["flipCards"]
        calculatedScore == CalculatedScore(Len(board.matchedPairs), Cardinality(board.pairs))
    IN /\ board.pairs # {}
       /\ ~board.isCompleted
       /\ ~board.isSubmitting
       /\ \E timeSpent \in {0, 5} :
             Entry(1, FlipUser, FlipActivity,
                   [score |-> calculatedScore, completed |-> TRUE,
                    answers |-> board.matchedPairs, timeSpent |-> timeSpent])
       /\ ui' = [ui EXCEPT !["flipCards"].isSubmitting = TRUE,
                           !["flipCards"].calculatedScore = calculatedScore,
                           !["flipCards"].request = 1]

FlipNext ==
    \/ InitializeCards
    \/ \E pairs \in PairContents : \E card \in Cards(pairs) : HandleCardClick(card)
    \/ FlipBack
    \/ HandleSaveFlipCards
    \/ HandleSaveResumed("flipCards")
    \/ \E p \in Procs : Run(p)

\* one learner playing a flip-cards activity and saving it
FlipSpec == Init /\ [][FlipNext]_vars

\* ---------------------------------------------------------------- claims
\* request p takes a step
Steps(p) == pc'[p] # pc[p]

\* the progress write of the running save has succeeded
AfterWritePcs == {"ucpActivities", "ucpCompleted", "ucpUserCourse", "ucpWrite", "revalidate"}

\* q is n/d rounded to the nearest integer, halves up (n >= 0, d > 0)
IsRounded(q, n, d) == 2 * q * d <= 2 * n + d /\ 2 * n + d < 2 * q * d + 2 * d

\* C1: under any interleaving of concurrent saves, user_progress holds at most
\* one row per (user, activity) pair.
C1_OneProgressRowPerUserActivity ==
    \A u \in Users, a \in ActivityIds : Cardinality(ProgressRows(u, a)) <= 1

\* C2: when saves run one at a time, user_progress holds exactly one row for the
\* saved (user, activity) pair after every save whose progress write succeeded.
C2_SequentialSavesKeepOneRow ==
    \A p \in Procs :
        pc[p] \in AfterWritePcs =>
            Cardinality(ProgressRows(frame[p].user, frame[p].activityId)) = 1

\* C3: under any interleaving of concurrent saves, user_courses holds at most one
\* row per (user, course) pair.
C3_OneEnrollmentPerUserCourse ==
    \A u \in Users, c \in Courses : Cardinality(UserCourseRows(u, c)) <= 1

\* C4: a save with no valid session (no user, or an error of the auth provider)
\* returns a failure carrying the authentication message from its first step,
\* having written no table and signalled no invalidation; nothing of the call
\* runs before that step but the call itself.
C4_UnauthenticatedSaveWritesNothing ==
    [][\A p \in Procs :
          /\ (/\ pc[p] = "getUser"
              /\ Steps(p)
              /\ (frame[p].session = NoUser \/ faults' # faults))
             => /\ pc'[p] = "idle"
                /\ result'[p].kind = "failure"
                /\ result'[p].error \in {"auth error", "User not authenticated"}
                /\ tables' = tables
                /\ stale' = stale
          /\ (pc'[p] = "getUser" /\ Steps(p))
             => /\ pc[p] = "idle"
                /\ tables' = tables
                /\ stale' = stale
      ]_vars

C4_Witness ==
    \E p \in Procs :
        /\ pc[p] = "idle"
        /\ result[p] = Failure("User not authenticated")
        /\ user_progress = <<>>

\* C5: a save by an authenticated user for an activity id that resolves to no
\* activity returns a failure from the activity lookup (the lookup's no-rows
\* message when the lookup itself answered), having written no table and
\* signalled no invalidation; only the call and the session check ran before.
C5_UnknownActivityWritesNothing ==
    [][\A p \in Procs :
          /\ (/\ pc[p] = "selectActivity"
              /\ Steps(p)
              /\ frame[p].activityId \notin ActivityIds)
             => /\ frame[p].user \in Users
                /\ pc'[p] = "idle"
                /\ result'[p].kind = "failure"
                /\ faults' = faults => result'[p].error = "no rows returned"
                /\ tables' = tables
                /\ stale' = stale
          /\ (pc'[p] = "selectActivity" /\ Steps(p))
             => /\ pc[p] = "getUser"
                /\ tables' = tables
                /\ stale' = stale
          /\ (pc'[p] = "getUser" /\ Steps(p))
             => /\ pc[p] = "idle"
                /\ tables' = tables
                /\ stale' = stale
      ]_vars

C5_Witness ==
    \E p \in Procs :
        /\ pc[p] = "idle"
        /\ result[p] = Failure("no rows returned")

\* C6: a save of a user with no enrollment row for the course inserts exactly
\* one user_courses row, with progress 0 and score 0, and raises the course's
\* total_enrollment by exactly 1; a save of a user who has an enrollment row
\* inserts none and leaves the counter as it is.
C6_AutoEnrollment ==
    [][\A p \in Procs :
          LET u == frame[p].user
              c == frame[p].course_id
              enrolled == UserCourseRows(u, c) # {}
          IN /\ (pc[p] = "selectUserCourse" /\ Steps(p))
                => pc'[p] = IF enrolled THEN "selectProgress" ELSE "insertUserCourse"
             /\ (pc[p] = "insertUserCourse" /\ Steps(p))
                => user_courses' = Append(user_courses,
                       [user_id |-> u, course_id |-> c, progress |-> 0, score |-> 0])
             /\ (pc[p] = "updateCourse" /\ Steps(p))
                => total_enrollment' = [total_enrollment EXCEPT ![c] = @ + 1]
             /\ (pc[p] # "insertUserCourse" /\ Steps(p))
                => Len(user_courses') = Len(user_courses)
             /\ (pc[p] # "updateCourse" /\ Steps(p))
                => total_enrollment' = total_enrollment
      ]_vars

\* C7: when a progress row exists for (user, activity) and a later save omits
\* timeSpent, the time_spent stored in that row after the save's write equals
\* the value stored before it.
C7_OmittedTimeSpentKeepsStoredValue ==
    [][\A p \in Procs :
          (/\ pc[p] = "writeProgress"
           /\ Steps(p)
           /\ frame[p].timeSpent = Undefined)
          => \A r \in ProgressRows(frame[p].user, frame[p].activityId) :
                 user_progress'[r].time_spent = user_progress[r].time_spent
      ]_vars

\* a row stored with time_spent 5 and then saved again by the submission that
\* omits timeSpent (the only one with answers "x")
C7_Witness ==
    \E r \in DOMAIN user_progress :
        /\ user_progress[r].answers = "x"
        /\ user_progress[r].time_spent = 5
        /\ user_progress[r].created_at < calls

\* C8: whenever the caller supplies timeSpent, the value 0 included, the row the
\* save wrote stores the supplied value.
C8_SuppliedTimeSpentIsStored ==
    [][\A p \in Procs :
          (/\ pc[p] = "writeProgress"
           /\ pc'[p] = "ucpActivities"
           /\ frame[p].timeSpent # Undefined)
          => user_progress'[frame'[p].data].time_spent = frame[p].timeSpent
      ]_vars

\* C9: with T >= 1 published activities of the course and C completed progress
\* rows of the user in it whose scores sum to S, the enrollment row that
\* updateCourseProgress writes holds progress = round(100*C/T) and
\* score = round(S/C), or score 0 when C = 0; T = 4 with scores 80, 90, 100
\* gives 75 and 90.
C9_AggregationArithmetic ==
    [][\A p \in Procs :
          (pc[p] = "ucpWrite" /\ Steps(p) /\ faults' = faults)
          => LET u == frame[p].user
                 c == frame[p].course_id
                 T == Cardinality(PublishedActivities(c))
                 C == Cardinality(CompletedRows(u, c))
                 S == SumScores(CompletedRows(u, c))
                 id == IF frame[p].existingUserCourse # NoRow
                       THEN frame[p].existingUserCourse
                       ELSE Len(user_courses) + 1
                 row == user_courses'[id]
             IN /\ T >= 1
                /\ row.user_id = u /\ row.course_id = c
                /\ IsRounded(row.progress, 100 * C, T)
                /\ C > 0 => IsRounded(row.score, S, C)
                /\ C = 0 => row.score = 0
                /\ ProgressPercentage(3, 4) = 75
                /\ AverageScore(80 + 90 + 100, 3) = 90
      ]_vars

\* two completed rows with scores 1 and 2: the average 1.5 is stored as 2
C9_Witness ==
    \E p \in Procs :
        /\ pc[p] = "revalidate"
        /\ Cardinality(CompletedRows(frame[p].user, frame[p].course_id)) = 2
        /\ SumScores(CompletedRows(frame[p].user, frame[p].course_id)) = 3
        /\ \E i \in UserCourseRows(frame[p].user, frame[p].course_id) :
               user_courses[i].score = 2

\* C10: every user_courses row has a progress value in 0..100.
C10_ProgressWithinPercentRange ==
    \A i \in DOMAIN user_courses : user_courses[i].progress \in 0..100

\* C11: for a course with no published activity updateCourseProgress returns
\* after its first read: it reaches neither the division by the number of
\* published activities nor its lookup or write of user_courses.
C11_NoPublishedActivityNoAggregate ==
    \A p \in Procs :
        pc[p] \in {"ucpCompleted", "ucpUserCourse", "ucpWrite"} =>
            PublishedActivities(frame[p].course_id) # {}

C11_Witness ==
    \E p \in Procs :
        /\ pc[p] = "revalidate"
        /\ frame[p].data # NoRow
        /\ PublishedActivities(frame[p].course_id) = {}
        /\ faults = 0

\* the steps of the enrollment bookkeeping and the lookup that follows them
EnrollmentPcs ==
    {"selectUserCourse", "insertUserCourse", "selectCourse", "updateCourse", "selectProgress"}

\* C12: no outcome of an enrollment bookkeeping step (lookup, insert, counter
\* read, counter write) ends the save or alters the submitted values: the save
\* goes on to the progress write; a progress write that succeeds leaves a row of
\* the acting user and the activity holding the submitted score and completed
\* flag; and a save that has written its row returns success.
C12_BookkeepingFailureKeepsProgressWrite ==
    [][\A p \in Procs :
          /\ (pc[p] \in EnrollmentPcs /\ Steps(p))
             => /\ pc'[p] \in EnrollmentPcs \cup {"writeProgress"}
                /\ result'[p] = result[p]
                /\ frame'[p].score = frame[p].score
                /\ frame'[p].completed = frame[p].completed
                /\ frame'[p].user = frame[p].user
                /\ frame'[p].activityId = frame[p].activityId
          /\ (pc[p] = "writeProgress" /\ Steps(p) /\ faults' = faults)
             => /\ pc'[p] = "ucpActivities"
                /\ frame'[p].data \in DOMAIN user_progress'
                /\ user_progress'[frame'[p].data].user_id = frame[p].user
                /\ user_progress'[frame'[p].data].activity_id = frame[p].activityId
                /\ user_progress'[frame'[p].data].score = frame[p].score
                /\ user_progress'[frame'[p].data].completed = frame[p].completed
          /\ (pc[p] \in AfterWritePcs /\ pc'[p] = "idle")
             => result'[p].kind = "success"
      ]_vars

\* the first save has returned success although its enrollment insert or its
\* counter write failed
C12_Witness ==
    \E p \in Procs :
        /\ pc[p] = "idle"
        /\ result[p].kind = "success"
        /\ calls = 1
        /\ faults = 1
        /\ \A c \in Courses : total_enrollment[c] = 0
        /\ Len(user_progress) = 1
        /\ user_progress[1].score = 2

\* C13: once the progress write has succeeded, no step of updateCourseProgress,
\* failing or not, changes user_progress or ends the save with a failure: the
\* save returns success carrying the row that was written.
C13_AggregatorFailureIsSilent ==
    [][\A p \in Procs :
          (pc[p] \in AfterWritePcs /\ Steps(p))
             => /\ user_progress' = user_progress
                /\ pc'[p] \in AfterWritePcs \cup {"idle"}
                /\ pc'[p] # "idle"
                   => /\ result'[p] = result[p]
                      /\ frame'[p].data = frame[p].data
                /\ pc'[p] = "idle"
                   => /\ pc[p] = "revalidate"
                      /\ result'[p] = Success(frame[p].data)
      ]_vars

\* a save has returned success for a completed activity of a course with
\* published activities, and the enrollment row still holds progress 0: the
\* aggregator failed on the way
C13_Witness ==
    /\ \A p \in Procs : pc[p] = "idle"
    /\ \E p \in Procs : result[p].kind = "success"
    /\ calls = 1
    /\ faults = 1
    /\ Len(user_progress) = 1
    /\ user_progress[1].completed
    /\ PublishedActivities(CourseOf[user_progress[1].activity_id]) # {}
    /\ \E i \in UserCourseRows(user_progress[1].user_id,
                               CourseOf[user_progress[1].activity_id]) :
           user_courses[i].progress = 0

C15_FailedProgressWriteAborts ==
    [][\A p \in Procs :
          /\ (pc[p] = "writeProgress" /\ Steps(p) /\ faults' # faults)
             => /\ pc'[p] = "idle"
                /\ result'[p] = Failure("store error")
                /\ tables' = tables
                /\ stale' = stale
          /\ (pc'[p] = "ucpActivities" /\ Steps(p))
             => /\ pc[p] = "writeProgress"
                /\ faults' = faults
      ]_vars

\* the first save enrolled the user and then failed on its progress write
C15_Witness ==
    \E p \in Procs :
        /\ pc[p] = "idle"
        /\ result[p] = Failure("store error")
        /\ calls = 1
        /\ Len(user_courses) = 1
        /\ user_progress = <<>>
        /\ stale = {}

\* the rows of a table that a step inserts or changes
WrittenRows(old, new) ==
    {i \in DOMAIN new : i \notin DOMAIN old \/ new[i] # old[i]}

\* C16 as stated: every update a save issues, the enrollment counter update
\* included, filters on the acting user's id in addition to the row's own id.
C16_EveryUpdateFiltersOnUser ==
    [][\A p \in Procs :
          (Steps(p) /\ UpdateIssued(p) # "none")
             => {"id", "user_id"} \subseteq UpdateFilters[UpdateIssued(p)]
      ]_vars

\* C16, amended: the updates of user_progress and user_courses filter on the
\* acting user's id in addition to the row's own id, so that applied to a row of
\* another user they change nothing (the counter update of courses filters on
\* the course id alone); and every user_progress or user_courses row a save
\* inserts or changes carries, before and after, the id of the acting user.
C16_UserRowsWrittenForActingUserOnly ==
    [][/\ {"id", "user_id"} \subseteq UpdateFilters["user_progress"]
       /\ {"id", "user_id"} \subseteq UpdateFilters["user_courses"]
       /\ \A p \in Procs :
              Steps(p)
                 => /\ UpdateIssued(p) = "user_progress"
                       => \A i \in DOMAIN user_progress, u \in Users :
                              user_progress[i].user_id # u
                                 => UpdatedProgress(user_progress, i, u,
                                        [score |-> user_progress[i].score + 1])
                                    = user_progress
                    /\ UpdateIssued(p) = "user_courses"
                       => \A i \in DOMAIN user_courses, u \in Users :
                              user_courses[i].user_id # u
                                 => UpdatedUserCourse(user_courses, i, u,
                                        user_courses[i].progress + 1,
                                        user_courses[i].score + 1)
                                    = user_courses
                    /\ \A i \in WrittenRows(user_progress, user_progress') :
                           /\ user_progress'[i].user_id = frame[p].user
                           /\ i \in DOMAIN user_progress
                              => user_progress[i].user_id = frame[p].user
                    /\ \A i \in WrittenRows(user_courses, user_courses') :
                           /\ user_courses'[i].user_id = frame[p].user
                           /\ i \in DOMAIN user_courses
                              => user_courses[i].user_id = frame[p].user
      ]_vars

\* a save has updated the enrollment row of its user while the enrollment row
\* of another user is in the table, untouched
C16_Witness ==
    \E p \in Procs :
        /\ pc[p] = "revalidate"
        /\ Len(user_courses) = 2
        /\ user_courses[1].user_id # frame[p].user
        /\ user_courses[2].user_id = frame[p].user
        /\ user_courses[2].progress > 0
        /\ Len(user_progress) = 2
        /\ user_progress[1].user_id # frame[p].user

\* C17: no step of any save deletes a row: in every step user_progress and
\* user_courses keep all the rows they had, each under its id and with its
\* (user, activity) or (user, course) key, so the sets of row identities only grow.
C17_RowsAreNeverDeleted ==
    [][/\ Len(user_progress') >= Len(user_progress)
       /\ \A i \in DOMAIN user_progress :
              /\ user_progress'[i].user_id = user_progress[i].user_id
              /\ user_progress'[i].activity_id = user_progress[i].activity_id
       /\ Len(user_courses') >= Len(user_courses)
       /\ \A i \in DOMAIN user_courses :
              /\ user_courses'[i].user_id = user_courses[i].user_id
              /\ user_courses'[i].course_id = user_courses[i].course_id
      ]_vars

\* two saves have enrolled, written progress and updated an enrollment row, and
\* both tables hold both rows
C17_Witness ==
    /\ \A p \in Procs : pc[p] = "idle"
    /\ calls = 2
    /\ Len(user_progress) = 2
    /\ Len(user_courses) = 2
    /\ \E i \in DOMAIN user_courses : user_courses[i].progress > 0

\* the steps at which updateCourseProgress returns: its early returns and its write
AggregateExitPcs == {"ucpActivities", "ucpCompleted", "ucpWrite"}

\* C19: a save signals invalidation only in its last step, which it enters only
\* when updateCourseProgress has returned; updateCourseProgress is entered only
\* by the step that wrote the progress row; and no step of the save writes
\* user_progress or user_courses once the invalidation step is reached.
C19_WriteThenAggregateThenInvalidate ==
    [][\A p \in Procs :
          Steps(p)
             => /\ stale' # stale => pc[p] = "revalidate"
                /\ pc'[p] = "revalidate" => pc[p] \in AggregateExitPcs
                /\ pc'[p] = "ucpActivities"
                   => /\ pc[p] = "writeProgress"
                      /\ frame'[p].data \in DOMAIN user_progress'
                /\ pc[p] \in AfterWritePcs \ {"ucpActivities"}
                   => pc'[p] \in AfterWritePcs \cup {"idle"}
                /\ pc[p] = "revalidate"
                   => /\ tables' = tables
                      /\ pc'[p] = "idle"
                /\ user_courses' # user_courses
                   => pc[p] \in {"insertUserCourse", "ucpWrite"}
                /\ user_progress' # user_progress => pc[p] = "writeProgress"
      ]_vars

\* a save is about to signal invalidation after its aggregate was written
C19_Witness ==
    \E p \in Procs :
        /\ pc[p] = "revalidate"
        /\ stale = {}
        /\ frame[p].data \in DOMAIN user_progress
        /\ \E i \in UserCourseRows(frame[p].user, frame[p].course_id) :
               user_courses[i].progress = 100

\* C20: the last step of a save whose progress write succeeded marks stale the
\* detail path of the saved activity, the path of the course that owns it, the
\* dashboard path and the progress path, and nothing else, and returns success;
\* a save that has written its row always comes to that step; no other step
\* marks a path stale, so a save that returns a failure (authentication, missing
\* activity, failed progress write) has signalled nothing.
C20_InvalidationOfTheSavedPathsOnly ==
    [][\A p \in Procs :
          Steps(p)
             => /\ pc[p] = "revalidate"
                   => /\ stale' = stale \cup
                             {<<"/dashboard/activities", frame[p].activityId>>,
                              <<"/dashboard/courses", CourseOf[frame[p].activityId]>>,
                              <<"/dashboard", "">>,
                              <<"/dashboard/progress", "">>}
                      /\ user_progress[frame[p].data].activity_id = frame[p].activityId
                      /\ result'[p].kind = "success"
                /\ pc[p] # "revalidate" => stale' = stale
                /\ (pc[p] \in AfterWritePcs /\ pc'[p] = "idle") => pc[p] = "revalidate"
                /\ (pc'[p] = "idle" /\ result'[p].kind = "failure")
                   => /\ pc[p] \in {"getUser", "selectActivity", "writeProgress"}
                      /\ stale' = stale
      ]_vars

\* one save for the draft activity of course c2 has signalled its four paths,
\* the other save has failed and signalled nothing
C20_Witness ==
    /\ \A p \in Procs : pc[p] = "idle"
    /\ calls = 2
    /\ \E p \in Procs : result[p].kind = "failure"
    /\ stale = {<<"/dashboard/activities", "a3">>, <<"/dashboard/courses", "c2">>,
                <<"/dashboard", "">>, <<"/dashboard/progress", "">>}

\* C18: when the save a component awaited has returned a failure, the component
\* leaves its handler with an error notification showing and with its state as
\* it was before the handler ran: not marked completed, no result screen, the
\* score of the mount, and no announcement that progress was saved.
C18_FailureLeavesUiIntact ==
    [][\A c \in Components :
          (/\ ui[c].request # 0
           /\ ui'[c].request = 0
           /\ result[ui[c].request].kind = "failure")
             => /\ ui'[c].toast \in {"Error", "Error saving progress"}
                /\ ~ui'[c].isCompleted
                /\ ~ui'[c].showResult
                /\ ui'[c].score = MountedUi.score
      ]_vars

\* C21: when a save of a learner that ran alone and without store fault, after
\* any interleaving of earlier saves, has come back from updateCourseProgress
\* and the learner has exactly one enrollment row in the course, that row holds
\* round(100*C/T) and round(S/C) (0 when C = 0) of the learner's completed
\* progress rows present then, T being the number of published activities.
C21_SoloSaveRecomputesAggregate ==
    \A p \in Procs :
        LET u == frame[p].user
            c == frame[p].course_id
            T == Cardinality({a \in ActivityIds :
                                CourseOf[a] = c /\ status[a] = "published"})
            done == {i \in DOMAIN user_progress :
                        /\ user_progress[i].user_id = u
                        /\ user_progress[i].course_id = c
                        /\ user_progress[i].completed}
            C == Cardinality(done)
            S == SumScores(done)
            rows == {i \in DOMAIN user_courses :
                        user_courses[i].user_id = u /\ user_courses[i].course_id = c}
        IN (calls > MaxCalls /\ pc[p] = "revalidate" /\ T > 0
            /\ Cardinality(rows) = 1)
              => \A i \in rows :
                     /\ IsRounded(user_courses[i].progress, 100 * C, T)
                     /\ C > 0 => IsRounded(user_courses[i].score, S, C)
                     /\ C = 0 => user_courses[i].score = 0

\* the further save is about to overwrite, with 100, the 50 that a race of two
\* fault-free saves left in the enrollment row; both progress rows were
\* completed before it began (its own row keeps the time spent of a completed
\* submission that it did not supply)
C21_Witness ==
    \E p \in Procs :
        /\ calls > MaxCalls
        /\ faults = 0
        /\ pc[p] = "ucpWrite"
        /\ frame[p].existingUserCourse # NoRow
        /\ Len(user_courses) = 1
        /\ user_courses[1].progress = 50
        /\ frame[p].progressPercentage = 100
        /\ Len(user_progress) = 2
        /\ \A i \in DOMAIN user_progress :
               /\ user_progress[i].created_at <= MaxCalls
               /\ user_progress[i].completed
        /\ frame[p].data \in DOMAIN user_progress
        /\ user_progress[frame[p].data].answers = "x"
        /\ user_progress[frame[p].data].time_spent = 5

\* C22: the total_enrollment counter of a course is never decremented: no step
\* lowers it.
C22_CounterNeverDecremented ==
    [][\A c \in Courses : total_enrollment'[c] >= total_enrollment[c]]_vars

\* C23: the counter increment is a read followed by a separate write of the
\* value read plus one (1 when nothing or 0 was read), whatever the counter
\* holds when the write arrives; the read takes no lock, so between the two any
\* other request may write the counter.  Two overlapping first-time enrollments
\* of different learners can therefore leave two enrollment rows and a counter
\* grown by 1 (the witness).
C23_CounterWriteIsReadPlusOne ==
    [][\A p \in Procs :
          /\ (pc[p] = "updateCourse" /\ Steps(p) /\ faults' = faults)
             => total_enrollment'[frame[p].course_id] =
                    (IF frame[p].course \in {Undefined, 0} THEN 0 ELSE frame[p].course) + 1
          /\ (pc[p] = "selectCourse" /\ Steps(p) /\ faults' = faults)
             => /\ frame'[p].course = total_enrollment[frame[p].course_id]
                /\ total_enrollment' = total_enrollment
                /\ pc'[p] = "updateCourse"
      ]_vars

\* two learners have enrolled into c1 without any store fault, both counter
\* writes are done, and the counter stands at 1
C23_Witness ==
    /\ faults = 0
    /\ calls = 2
    /\ Len(user_courses) = 2
    /\ user_courses[1].user_id # user_courses[2].user_id
    /\ user_courses[1].course_id = "c1"
    /\ user_courses[2].course_id = "c1"
    /\ \A p \in 1..2 : pc[p] \in {"selectProgress", "writeProgress"} \cup AfterWritePcs
    /\ total_enrollment["c1"] = 1

\* C24: the values updateCourseProgress computes count only the learner's
\* completed rows whose activity is a published activity of the course.
C24_OnlyPublishedActivitiesCount ==
    [][\A p \in Procs :
          (pc[p] = "ucpCompleted" /\ Steps(p) /\ faults' = faults)
             => LET u == frame[p].user
                    c == frame[p].course_id
                    T == Cardinality(PublishedActivities(c))
                    done == {i \in CompletedRows(u, c) :
                                user_progress[i].activity_id \in PublishedActivities(c)}
                    C == Cardinality(done)
                    S == SumScores(done)
                IN /\ IsRounded(frame'[p].progressPercentage, 100 * C, T)
                   /\ C > 0 => IsRounded(frame'[p].averageScore, S, C)
                   /\ C = 0 => frame'[p].averageScore = 0
      ]_vars

\* C25: a save reads and writes the course counter only right after its own
\* enrollment insert has succeeded: the counter changes only in the counter
\* write, which follows the counter read, which follows only an insert that
\* appended the save's enrollment row; a failed insert and a lookup that found
\* the enrollment row lead past both, the counter unchanged.
C25_CounterOnlyAfterOwnEnrollment ==
    [][\A p \in Procs :
          Steps(p)
             => /\ total_enrollment' # total_enrollment => pc[p] = "updateCourse"
                /\ pc'[p] = "updateCourse" => pc[p] = "selectCourse"
                /\ pc'[p] = "selectCourse"
                   => /\ pc[p] = "insertUserCourse"
                      /\ faults' = faults
                      /\ user_courses' = Append(user_courses,
                             [user_id |-> frame[p].user, course_id |-> frame[p].course_id,
                              progress |-> 0, score |-> 0])
                /\ (pc[p] = "insertUserCourse" /\ faults' # faults)
                   => /\ pc'[p] = "selectProgress"
                      /\ tables' = tables
                /\ (/\ pc[p] = "selectUserCourse"
                    /\ faults' = faults
                    /\ Cardinality(UserCourseRows(frame[p].user, frame[p].course_id)) = 1)
                   => /\ pc'[p] = "selectProgress"
                      /\ tables' = tables
      ]_vars

\* two fault-free saves of one learner in course c1: the first enrolled and
\* counted, the second found the enrollment row and left the counter at 1
C25_Witness ==
    /\ \A p \in Procs : pc[p] = "idle"
    /\ calls = 2
    /\ faults = 0
    /\ Len(user_courses) = 1
    /\ Len(user_progress) = 2
    /\ \A i \in DOMAIN user_progress : user_progress[i].course_id = "c1"
    /\ total_enrollment["c1"] = 1

\* C26: created_at is set once, by the insert: no step changes the created_at or
\* the position (row id) of a stored progress row; the insert path appends one
\* row stamped with the time of the save, and the update path writes score,
\* completed, answers, course id and time spent into the row it found and
\* leaves every other row, the row's created_at and the row's id as they were.
C26_CreatedAtWrittenByInsertOnly ==
    [][/\ \A i \in DOMAIN user_progress :
             /\ i \in DOMAIN user_progress'
             /\ user_progress'[i].created_at = user_progress[i].created_at
       /\ \A p \in Procs :
             (pc[p] = "writeProgress" /\ Steps(p) /\ faults' = faults)
                => LET f == frame[p]
                       id == f.existingProgress
                       data == ProgressData(f)
                   IN IF id = NoRow
                      THEN /\ Len(user_progress') = Len(user_progress) + 1
                           /\ user_progress'[Len(user_progress')].created_at = calls
                           /\ \A k \in DOMAIN data :
                                 user_progress'[Len(user_progress')][k] = data[k]
                      ELSE /\ Len(user_progress') = Len(user_progress)
                           /\ \A i \in DOMAIN user_progress :
                                 i # id => user_progress'[i] = user_progress[i]
                           /\ \A k \in {"score", "completed", "answers",
                                        "course_id", "time_spent"} :
                                 user_progress'[id][k] = data[k]
                           /\ user_progress'[id].user_id = user_progress[id].user_id
                           /\ user_progress'[id].activity_id = user_progress[id].activity_id
      ]_vars

\* the second save of an activity has just updated the row the first save
\* inserted: the row is still the only one and still carries the first stamp
C26_Witness ==
    /\ calls = 2
    /\ faults = 0
    /\ Len(user_progress) = 1
    /\ user_progress[1].created_at = 1
    /\ user_progress[1].completed = FALSE
    /\ user_progress[1].time_spent = 0
    /\ \E p \in Procs : pc[p] = "ucpActivities"

\* C27: a save returns success only after its own progress write has returned
\* without error, and when that write returns the store holds a row of the
\* acting user and the activity whose score, completed flag and answers are the
\* arguments of the call and whose course_id is the activity's owning course.
C27_SuccessMeansRowWritten ==
    [][\A p \in Procs :
          Steps(p)
             => /\ (pc'[p] = "idle" /\ result'[p].kind = "success")
                   => pc[p] \in AfterWritePcs
                /\ (pc'[p] \in AfterWritePcs /\ pc[p] \notin AfterWritePcs)
                   => /\ pc[p] = "writeProgress"
                      /\ faults' = faults
                      /\ \E i \in DOMAIN user_progress' :
                            /\ i = frame'[p].data
                            /\ user_progress'[i].user_id = frame[p].user
                            /\ user_progress'[i].activity_id = frame[p].activityId
                            /\ user_progress'[i].answers = frame[p].answers
                            /\ user_progress'[i].score = frame[p].score
                            /\ user_progress'[i].completed = frame[p].completed
                            /\ user_progress'[i].course_id = CourseOf[frame[p].activityId]
      ]_vars

\* two saves of one activity have returned success without a store error; the
\* single row, inserted by the first, holds what the second submitted
C27_Witness ==
    /\ \A p \in Procs : pc[p] = "idle"
    /\ calls = 2
    /\ faults = 0
    /\ \E p \in Procs : result[p].kind = "success"
    /\ Len(user_progress) = 1
    /\ user_progress[1].created_at = 1
    /\ user_progress[1].answers = "y"
    /\ user_progress[1].score = 2
    /\ user_progress[1].completed

\* C28: nothing a save has written is taken back: no step removes an enrollment
\* row or changes whose row it is, the statements after the enrollment
\* bookkeeping up to the progress write touch neither user_courses nor the
\* counter, and a step that returns a failure writes nothing; so an
\* auto-enrollment and its counter increment outlive the failure of the
\* progress write that follows them.
C28_FailedSaveKeepsEnrollment ==
    [][\A p \in Procs :
          Steps(p)
             => /\ \A i \in DOMAIN user_courses :
                      /\ i \in DOMAIN user_courses'
                      /\ user_courses'[i].user_id = user_courses[i].user_id
                      /\ user_courses'[i].course_id = user_courses[i].course_id
                /\ pc[p] \in {"selectProgress", "writeProgress"}
                   => /\ user_courses' = user_courses
                      /\ total_enrollment' = total_enrollment
                /\ (pc'[p] = "idle" /\ result'[p].kind = "failure")
                   => tables' = tables
      ]_vars

\* a learner's first save enrolled them, counted them and then failed on its
\* progress write: the failure is returned, the enrollment row (0, 0) and the
\* counter 1 are in the store, and no progress row is
C28_Witness ==
    \E p \in Procs, u \in Users, c \in Courses :
        /\ pc[p] = "idle"
        /\ result[p] = Failure("store error")
        /\ calls = 1
        /\ faults = 1
        /\ user_courses = <<[user_id |-> u, course_id |-> c, progress |-> 0, score |-> 0]>>
        /\ total_enrollment[c] = 1
        /\ user_progress = <<>>

\* C29: starting from a zero counter and no enrollment rows, as long as no store
\* or auth call has failed and saves run one at a time, each course's
\* total_enrollment equals the number of user_courses rows of that course
\* whenever no save stands between its enrollment insert and its counter write.
C29_CounterEqualsEnrollmentRows ==
    (/\ faults = 0
     /\ \A p \in Procs : pc[p] \notin {"selectCourse", "updateCourse"})
        => \A c \in Courses :
              total_enrollment[c] =
                  Cardinality({i \in DOMAIN user_courses : user_courses[i].course_id = c})

\* two learners have each saved an activity of course c1, one after the other
\* and without error: two enrollment rows, counter 2
C29_Witness ==
    /\ \A p \in Procs : pc[p] = "idle"
    /\ faults = 0
    /\ Len(user_courses) = 2
    /\ \A i \in DOMAIN user_courses : user_courses[i].course_id = "c1"
    /\ total_enrollment["c1"] = 2
    /\ \A p \in Procs : result[p].kind \in {"success", "none"}

\* the cards that lie face-up without being shown as matched
FaceUpUnmatched(board) ==
    {card \in Cards(board.pairs) :
        Includes(board.flippedCards, card.id) /\ ~Includes(board.matchedPairs, card.pairId)}

\* the card a step turns face-up, if it turns one
FlipsCard(card) ==
    /\ Len(ui'["flipCards"].flippedCards) = Len(ui["flipCards"].flippedCards) + 1
    /\ ui'["flipCards"].flippedCards[Len(ui'["flipCards"].flippedCards)] = card.id

\* C30: on the flip-cards board, whatever cards are clicked and whenever the
\* flip-back timeouts fire, at most two cards are face-up and unmatched,
\* matchedPairs holds no pair id twice, no step flips a card of a matched pair
\* or a third card and matchedPairs changes only together with a flip, and the
\* score handleSave submits for an activity with at least one pair is in 0..100.
C30_FlipCardsBoardInvariants ==
    [][LET board == ui["flipCards"]
           after == ui'["flipCards"]
       IN /\ Cardinality(FaceUpUnmatched(after)) <= 2
          /\ \A i, j \in DOMAIN after.matchedPairs :
                after.matchedPairs[i] = after.matchedPairs[j] => i = j
          /\ \A card \in Cards(board.pairs) :
                FlipsCard(card)
                   => /\ ~Includes(board.matchedPairs, card.pairId)
                      /\ Len(board.flippedCards) < 2
          /\ after.matchedPairs # board.matchedPairs
                => \E card \in Cards(board.pairs) : FlipsCard(card)
          /\ (after.isSubmitting /\ ~board.isSubmitting /\ board.pairs # {})
                => frame'[after.request].score \in 0..100
      ]_vars

====
